---- MODULE Spec2Model ----
(***************************************************************************)
(* ARMEmulatorCore (src/lib/wasm/emulator.cpp) as a state machine.         *)
(*                                                                         *)
(* A uint32_t is a pair <<hi, lo>> of 16-bit halves, so that every         *)
(* operation keeps its 32-bit width (sums and doublings wrap modulo 2^32). *)
(* The byte buffer is kept sparsely: a function from the addresses that    *)
(* hold a non-zero byte to that byte; every other byte of the buffer is 0. *)
(***************************************************************************)
EXTENDS Integers, Sequences, FiniteSets, TLC

VARIABLES registers, memory, memorySize, memoryCapacity, isRunning,
          pc, sp, lr, instructionCount,
          status,        \* "ready", or how a call failed to return
          attempts,      \* history: instruction words submitted since construction
          initCapacity,  \* history: memoryCapacity chosen by the last init
          last           \* the most recent call: operation, inputs, result

\* last.op stands before last: two calls are compared by operation first,
\* then by arguments and result, whose shapes differ from one operation to another
vars == <<registers, memory, memorySize, memoryCapacity, isRunning,
          pc, sp, lr, instructionCount, status, attempts, initCapacity,
          last.op, last>>

(***************************************************************************)
(* Bounds of the exploration.                                              *)
(***************************************************************************)
MaxCount == 2
MaxBatch == 2

(***************************************************************************)
(* uint32_t arithmetic.                                                    *)
(***************************************************************************)
Half == 65536

P2 == <<1, 2, 4, 8, 16, 32, 64, 128, 256, 512, 1024, 2048, 4096, 8192,
        16384, 32768, 65536>>

Pow2(n) == P2[n + 1]

W(h, l) == <<h, l>>

U32(n) == <<n \div Half, n % Half>>

Zero32 == <<0, 0>>

Ones32 == <<Half - 1, Half - 1>>

Add32(a, b) ==
    LET l == a[2] + b[2]
        h == a[1] + b[1] + (l \div Half)
    IN  <<h % Half, l % Half>>

Sub32(a, b) ==
    LET l == a[2] - b[2]
        h == a[1] - b[1] - (IF l < 0 THEN 1 ELSE 0)
    IN  <<(h + 2 * Half) % Half, (l + Half) % Half>>

Ult(a, b) == a[1] < b[1] \/ (a[1] = b[1] /\ a[2] < b[2])

Ule(a, b) == ~Ult(b, a)

RECURSIVE And16(_, _)
And16(a, b) ==
    IF a = 0 \/ b = 0 THEN 0
    ELSE (a % 2) * (b % 2) + 2 * And16(a \div 2, b \div 2)

And32(a, b) == <<And16(a[1], b[1]), And16(a[2], b[2])>>

Not32(a) == <<Half - 1 - a[1], Half - 1 - a[2]>>

Or32(a, b) ==
    <<a[1] + b[1] - And16(a[1], b[1]), a[2] + b[2] - And16(a[2], b[2])>>

Xor32(a, b) ==
    <<a[1] + b[1] - 2 * And16(a[1], b[1]), a[2] + b[2] - 2 * And16(a[2], b[2])>>

\* x << n and x >> n for 0 <= n <= 31
Shl32(a, n) ==
    IF n < 16
    THEN <<((a[1] * Pow2(n)) + (a[2] \div Pow2(16 - n))) % Half,
           (a[2] * Pow2(n)) % Half>>
    ELSE <<(a[2] * Pow2(n - 16)) % Half, 0>>

Shr32(a, n) ==
    IF n < 16
    THEN <<a[1] \div Pow2(n),
           (a[2] \div Pow2(n)) + (a[1] % Pow2(n)) * Pow2(16 - n)>>
    ELSE <<0, a[1] \div Pow2(n - 16)>>

\* (int32_t)x >> n for 0 <= n <= 31
Sar32(a, n) ==
    IF a[1] >= Half \div 2
    THEN Or32(Shr32(a, n), Not32(Shr32(Ones32, n)))
    ELSE Shr32(a, n)

\* bits [lo + width - 1 : lo] of a word, as a number (width <= 24)
Field(a, lo, width) ==
    IF lo >= 16
    THEN (a[1] \div Pow2(lo - 16)) % Pow2(IF width > 16 THEN 16 ELSE width)
    ELSE LET low  == a[2] \div Pow2(lo)
             have == 16 - lo
         IN  IF width <= have
             THEN low % Pow2(width)
             ELSE low + (a[1] % Pow2(width - have)) * Pow2(have)

Bit(a, i) == Field(a, i, 1) = 1


(***************************************************************************)
(* The engine's fields as one value, so that the handlers are functions    *)
(* from a core (and their arguments) to the set of their outcomes.         *)
(***************************************************************************)
Core == [registers |-> registers, memory |-> memory, memorySize |-> memorySize,
         memoryCapacity |-> memoryCapacity, isRunning |-> isRunning,
         pc |-> pc, sp |-> sp, lr |-> lr, instructionCount |-> instructionCount]

NoBytes == [a \in {} |-> 0]

\* memory[a] of a buffer whose bytes are kept sparsely
Peek(bytes, a) == IF a \in DOMAIN bytes THEN bytes[a] ELSE 0

Poke(bytes, a, v) ==
    IF v = 0
    THEN [x \in DOMAIN bytes \ {a} |-> bytes[x]]
    ELSE [x \in DOMAIN bytes \cup {a} |-> IF x = a THEN v ELSE bytes[x]]

\* memcpy(memory + a, data, Len(data)), every byte inside the buffer
RECURSIVE PokeSeq(_, _, _)
PokeSeq(bytes, a, data) ==
    IF data = <<>> THEN bytes
    ELSE PokeSeq(Poke(bytes, a, Head(data)), Add32(a, U32(1)), Tail(data))

\* the bytes of a word, least significant first
LeBytes(v) == <<v[2] % 256, v[2] \div 256, v[1] % 256, v[1] \div 256>>

FromLeBytes(b) == <<b[3] + 256 * b[4], b[1] + 256 * b[2]>>

PeekSeq(bytes, a, n) == [i \in 1..n |-> Peek(bytes, Add32(a, U32(i - 1)))]

(***************************************************************************)
(* An access that leaves the buffer is undefined behaviour.  A build can   *)
(* trap; it can wrap the pointer modulo 2^32 (wasm32), so that the bytes   *)
(* whose wrapped address lies below the capacity land in the buffer and    *)
(* the others in whatever surrounds it; or it can reach memory that is not *)
(* the buffer at all.  A byte read from outside the buffer is any byte.    *)
(***************************************************************************)
IndeterminateByte == {0, 165}

\* the byte sequences an out-of-buffer read of n bytes can yield
IndeterminateSeq(n) == [1..n -> IndeterminateByte]

\* a memcpy that leaves the buffer: the buffers a build that returns leaves
StrayPoke(bytes, cap, a, data) ==
    LET idx     == {i \in 1..Len(data) : Ult(Add32(a, U32(i - 1)), cap)}
        inside  == [i \in idx |-> data[i]]
        RECURSIVE Put(_, _)
        Put(b, is) ==
            IF is = {} THEN b
            ELSE LET i == CHOOSE j \in is : TRUE
                 IN  Put(Poke(b, Add32(a, U32(i - 1)), inside[i]), is \ {i})
    IN  {Put(bytes, idx), bytes}

Reg(c, r) == c.registers[r + 1]

\* registers[r] = v, and nothing else
PutReg(c, r, v) == [c EXCEPT !.registers[r + 1] = v]

\* what a call leaves behind: the core, what it returned, whether it returned
Outcome(c, ret, st, oob) == [core |-> c, ret |-> ret, status |-> st, oob |-> oob]

Returns(c, ret) == Outcome(c, ret, "ready", FALSE)

(***************************************************************************)
(* ensureMemory, lines 37-52.  The doubling is uint32_t arithmetic: once   *)
(* newCapacity has wrapped to 0 it stays 0 and the loop never exits.       *)
(***************************************************************************)
RECURSIVE GrowCapacity(_, _)
GrowCapacity(newCapacity, size) ==
    IF ~Ult(newCapacity, size) THEN [exits |-> TRUE, newCapacity |-> newCapacity]
    ELSE IF newCapacity = Zero32 THEN [exits |-> FALSE, newCapacity |-> Zero32]
    ELSE GrowCapacity(Add32(newCapacity, newCapacity), size)

\* ensureMemory without the memset of line 47: the first added byte keeps what realloc left there
ensureMemoryNoZeroFill(c, size) ==
    IF Ule(size, c.memoryCapacity) THEN {Returns(c, TRUE)}
    ELSE LET g == GrowCapacity(Add32(c.memoryCapacity, c.memoryCapacity), size)
         IN  IF ~g.exits THEN {Outcome(c, FALSE, "hung", FALSE)}
             ELSE { Returns(c, FALSE),
                    Returns([c EXCEPT !.memoryCapacity = g.newCapacity,
                                      !.memory.bytes = Poke(@, c.memoryCapacity, 165)],
                            TRUE) }

\* the outcomes of ensureMemory(size): ret is its result
ensureMemory(c, size) ==
    IF Ule(size, c.memoryCapacity) THEN {Returns(c, TRUE)}
    ELSE LET g == GrowCapacity(Add32(c.memoryCapacity, c.memoryCapacity), size)
         IN  IF ~g.exits THEN {Outcome(c, FALSE, "hung", FALSE)}
             ELSE { Returns(c, FALSE),      \* realloc returns NULL
                    Returns([c EXCEPT !.memoryCapacity = g.newCapacity], TRUE) }

DefaultCapacity == <<1024, 0>>   \* 64 * 1024 * 1024

\* init, lines 76-97; calloc may fail
init(c, initialSize) ==
    LET cap == IF initialSize # Zero32 THEN initialSize ELSE DefaultCapacity
        c1  == [c EXCEPT !.memoryCapacity = cap]
        s   == Sub32(cap, U32(4))
        c2  == [c1 EXCEPT !.memory = [null |-> FALSE, bytes |-> NoBytes],
                          !.memorySize = cap,
                          !.isRunning = FALSE,
                          !.pc = Zero32,
                          !.sp = s,
                          !.lr = Zero32,
                          !.instructionCount = 0,
                          !.registers[14] = s,          \* registers[13] = sp
                          !.registers[16] = Zero32]     \* registers[15] = pc
    IN  { Returns([c1 EXCEPT !.memory = [null |-> TRUE, bytes |-> NoBytes]], FALSE),
          Returns(c2, TRUE) }

\* writeMemory, lines 100-111
writeMemory(c, address, data) ==
    IF c.memory.null THEN {Returns(c, FALSE)}
    ELSE
    LET length == U32(Len(data))
        end    == Add32(address, length)          \* address + length, wrapped
        grown  == IF Ult(c.memoryCapacity, end) THEN ensureMemory(c, end)
                  ELSE {Returns(c, TRUE)}
        Copy(e) ==
            LET size  == IF Ult(e.memorySize, end) THEN end ELSE e.memorySize
                wraps == data # <<>> /\ Ult(end, address)
            IN  IF ~wraps
                THEN {Returns([e EXCEPT !.memory.bytes = PokeSeq(@, address, data),
                                       !.memorySize = size], TRUE)}
                ELSE {Outcome(e, FALSE, "trapped", TRUE)} \cup
                     {Outcome([e EXCEPT !.memory.bytes = b, !.memorySize = size],
                              TRUE, "ready", TRUE) :
                        b \in StrayPoke(e.memory.bytes, e.memoryCapacity, address, data)}
    IN  UNION { IF g.status # "ready" \/ ~g.ret
                THEN {Outcome(g.core, FALSE, g.status, FALSE)}
                ELSE Copy(g.core) : g \in grown }

\* readMemory, lines 113-117: ret is <<success, output>>
readMemory(c, address, length) ==
    LET end == Add32(address, U32(length))
    IN  IF c.memory.null \/ Ult(c.memorySize, end)
        THEN {Returns(c, <<FALSE, <<>>>>)}
        ELSE IF length = 0 \/ ~Ult(end, address)
        THEN {Returns(c, <<TRUE, PeekSeq(c.memory.bytes, address, length)>>)}
        ELSE {Outcome(c, <<FALSE, <<>>>>, "trapped", TRUE)} \cup
             {Outcome(c, <<TRUE, o>>, "ready", TRUE) : o \in IndeterminateSeq(length)}

\* setRegister, lines 120-129
setRegister(c, reg, value) ==
    IF reg < 16
    THEN LET c1 == PutReg(c, reg, value)
             c2 == IF reg = 13 THEN [c1 EXCEPT !.sp = value] ELSE c1
         IN  IF reg = 15 THEN [c2 EXCEPT !.pc = value] ELSE c2
    ELSE IF reg = 16 THEN PutReg(c, 16, value)
    ELSE c

\* getRegister, lines 131-135
getRegister(c, reg) == IF reg < 16 THEN Reg(c, reg) ELSE IF reg = 16 THEN Reg(c, 16) ELSE Zero32

getInstructionCount(c) == c.instructionCount

getMemorySize(c) == c.memorySize

getPC(c) == c.pc

\* setPC, lines 197-200
setPC(c, value) == PutReg([c EXCEPT !.pc = value], 15, value)

\* checkCondition with HI taken as C or not Z
checkConditionHiAsOr(c, cond) ==
    LET cpsr == Reg(c, 16)
        N == Bit(cpsr, 31)
        Z == Bit(cpsr, 30)
        C == Bit(cpsr, 29)
        V == Bit(cpsr, 28)
    IN  CASE cond = 0  -> Z
          [] cond = 1  -> ~Z
          [] cond = 2  -> C
          [] cond = 3  -> ~C
          [] cond = 4  -> N
          [] cond = 5  -> ~N
          [] cond = 6  -> V
          [] cond = 7  -> ~V
          [] cond = 8  -> C \/ ~Z
          [] cond = 9  -> ~C \/ Z
          [] cond = 10 -> N = V
          [] cond = 11 -> N # V
          [] cond = 12 -> ~Z /\ (N = V)
          [] cond = 13 -> Z \/ (N # V)
          [] cond = 14 -> TRUE
          [] cond = 15 -> TRUE
          [] OTHER     -> TRUE

(***************************************************************************)
(* checkCondition, lines 204-230.                                          *)
(***************************************************************************)
checkCondition(c, cond) ==
    LET cpsr == Reg(c, 16)
        N == Bit(cpsr, 31)
        Z == Bit(cpsr, 30)
        C == Bit(cpsr, 29)
        V == Bit(cpsr, 28)
    IN  CASE cond = 0  -> Z
          [] cond = 1  -> ~Z
          [] cond = 2  -> C
          [] cond = 3  -> ~C
          [] cond = 4  -> N
          [] cond = 5  -> ~N
          [] cond = 6  -> V
          [] cond = 7  -> ~V
          [] cond = 8  -> C /\ ~Z
          [] cond = 9  -> ~C \/ Z
          [] cond = 10 -> N = V
          [] cond = 11 -> N # V
          [] cond = 12 -> ~Z /\ (N = V)
          [] cond = 13 -> Z \/ (N # V)
          [] cond = 14 -> TRUE
          [] cond = 15 -> TRUE
          [] OTHER     -> TRUE

(***************************************************************************)
(* The shifts of lines 248 and 265-270.  A C++ shift of a 32-bit value by  *)
(* 32 or more is undefined: a build either uses the amount modulo 32 (the  *)
(* wasm and x86 shift instructions) or shifts every bit out.               *)
(***************************************************************************)
ShlAny(v, n) == IF n < 32 THEN {Shl32(v, n)} ELSE {Shl32(v, n % 32), Zero32}

ShrAny(v, n) == IF n < 32 THEN {Shr32(v, n)} ELSE {Shr32(v, n % 32), Zero32}

SarAny(v, n) == IF n < 32 THEN {Sar32(v, n)} ELSE {Sar32(v, n % 32), Sar32(v, 31)}

\* (v >> n) | (v << (32 - n)), the second amount computed in 32 bits
RorAny(v, n) ==
    {Or32(a, b) : a \in ShrAny(v, n),
                  b \in ShlAny(v, IF n <= 32 THEN 32 - n ELSE 32 + ((256 - n) % 32))}

\* op2 after the shift of lines 265-270
Shifted(shiftType, v, shiftAmount) ==
    CASE shiftType = 0 -> ShlAny(v, shiftAmount)
      [] shiftType = 1 -> ShrAny(v, shiftAmount)
      [] shiftType = 2 -> SarAny(v, shiftAmount)
      [] shiftType = 3 -> RorAny(v, shiftAmount)

\* the second operand, lines 242-271
Operand2(c, instruction) ==
    IF Bit(instruction, 25)
    THEN RorAny(U32(Field(instruction, 0, 8)), Field(instruction, 8, 4) * 2)
    ELSE LET Rm == Field(instruction, 0, 4)
             shiftType == Field(instruction, 5, 2)
             shiftImm == Bit(instruction, 4)
             shiftAmount == IF shiftImm THEN Field(instruction, 7, 5)
                            ELSE Reg(c, Field(instruction, 8, 4))[2] % 256
         IN  Shifted(shiftType, Reg(c, Rm), shiftAmount)

\* result and carry of the operation, lines 274-294
Alu(op, op1, op2, cin) ==
    LET One == U32(1)
        r(v, cy) == [result |-> v, carry |-> cy]
    IN  CASE op = 0  -> r(And32(op1, op2), FALSE)
          [] op = 1  -> r(Xor32(op1, op2), FALSE)
          [] op = 2  -> r(Sub32(op1, op2), Ule(op2, op1))
          [] op = 3  -> r(Sub32(op2, op1), Ule(op1, op2))
          [] op = 4  -> LET v == Add32(op1, op2) IN r(v, Ult(v, op1))
          [] op = 5  -> LET v == Add32(Add32(op1, op2), U32(cin)) IN r(v, Ult(v, op1))
          [] op = 6  -> LET v == Sub32(Sub32(op1, op2), U32(1 - cin)) IN r(v, Ult(v, op1))
          [] op = 7  -> LET v == Sub32(Sub32(op2, op1), U32(1 - cin)) IN r(v, Ult(v, op2))
          [] op = 8  -> r(And32(op1, op2), FALSE)
          [] op = 9  -> r(Xor32(op1, op2), FALSE)
          [] op = 10 -> r(Sub32(op1, op2), Ule(op2, op1))
          [] op = 11 -> LET v == Add32(op1, op2) IN r(v, Ult(v, op1))
          [] op = 12 -> r(Or32(op1, op2), FALSE)
          [] op = 13 -> r(op2, FALSE)
          [] op = 14 -> r(And32(op1, Not32(op2)), FALSE)
          [] op = 15 -> r(Not32(op2), FALSE)

\* the destination write without the test of line 297: TST, TEQ, CMP, CMN write too
WriteBackEveryOp(c, op, Rd, result) ==
    IF Rd = 15 THEN [c EXCEPT !.pc = result]
    ELSE PutReg(c, Rd, result)

\* the destination write of lines 296-304
WriteBack(c, op, Rd, result) ==
    IF op < 8 \/ op > 11
    THEN IF Rd = 15 THEN [c EXCEPT !.pc = result]
         ELSE PutReg(c, Rd, result)
    ELSE c

\* the flag update of lines 306-315: bits 31..28 cleared, then N, Z, C set
UpdateFlags(c, op, S, Rd, result, carry) ==
    IF S /\ (Rd # 15 \/ op >= 8)
    THEN LET cpsr == Reg(c, 16)
             n == IF result[1] >= Half \div 2 THEN 32768 ELSE 0
             z == IF result = Zero32 THEN 16384 ELSE 0
             k == IF carry THEN 8192 ELSE 0
         IN  PutReg(c, 16, <<(cpsr[1] % 4096) + n + z + k, cpsr[2]>>)
    ELSE c

\* executeDataProcessing, lines 233-318
executeDataProcessing(c, instruction) ==
    LET op == Field(instruction, 21, 4)
        S0 == Bit(instruction, 20)
        Rn == Field(instruction, 16, 4)
        Rd == Field(instruction, 12, 4)
        op1 == Reg(c, Rn)
        cin == IF Bit(Reg(c, 16), 29) THEN 1 ELSE 0
        S == S0 \/ (op >= 8 /\ op <= 11)
    IN  { LET a == Alu(op, op1, op2, cin)
          IN  Returns(UpdateFlags(WriteBack(c, op, Rd, a.result), op, S, Rd,
                                  a.result, a.carry), TRUE)
          : op2 \in Operand2(c, instruction) }

\* executeBranch without the sign extension of lines 324-326
executeBranchUnsigned(c, instruction) ==
    LET L == Bit(instruction, 24)
        offset == Shl32(U32(Field(instruction, 0, 24)), 2)
        c1 == IF L THEN PutReg([c EXCEPT !.lr = Add32(c.pc, U32(4))], 14,
                               Add32(c.pc, U32(4)))
              ELSE c
        target == Add32(Add32(c1.pc, U32(8)), offset)
    IN  {Returns(PutReg([c1 EXCEPT !.pc = target], 15, target), TRUE)}

\* executeBranch, lines 321-337
executeBranch(c, instruction) ==
    LET L == Bit(instruction, 24)
        off0 == Shl32(U32(Field(instruction, 0, 24)), 2)
        offset == IF Bit(off0, 25) THEN Or32(off0, <<64512, 0>>) ELSE off0
        c1 == IF L THEN PutReg([c EXCEPT !.lr = Add32(c.pc, U32(4))], 14,
                               Add32(c.pc, U32(4)))
              ELSE c
        target == Add32(Add32(c1.pc, U32(8)), offset)
    IN  {Returns(PutReg([c1 EXCEPT !.pc = target], 15, target), TRUE)}

\* the base register update of lines 391-394
PostIndex(c, P, U, Rn, baseAddr, offset) ==
    IF ~P THEN PutReg(c, Rn, IF U THEN Add32(baseAddr, offset)
                             ELSE Sub32(baseAddr, offset))
    ELSE c

\* the offset of lines 349-356
LoadStoreOffset(c, instruction) ==
    IF Bit(instruction, 25) THEN U32(Field(instruction, 0, 12))
    ELSE Reg(c, Field(instruction, 0, 4))

\* the address of lines 361-366
EffectiveAddress(P, U, baseAddr, offset) ==
    IF P THEN (IF U THEN Add32(baseAddr, offset) ELSE Sub32(baseAddr, offset))
    ELSE baseAddr

\* the check of line 368: address + (B ? 1 : 4) > memorySize, in 32 bits
OutOfRange(c, address, len) == c.memory.null \/ Ult(c.memorySize, Add32(address, U32(len)))

\* registers[Rd] = v and the PC copy of lines 379-381
Loaded(c, Rd, v) ==
    LET c1 == PutReg(c, Rd, v)
    IN  IF Rd = 15 THEN [c1 EXCEPT !.pc = Reg(c1, Rd)] ELSE c1

\* executeLoadStore with the base-register update made before the range check
executeLoadStoreWritesBackFirst(c, instruction) ==
    LET L == Bit(instruction, 20)
        B == Bit(instruction, 22)
        Rn == Field(instruction, 16, 4)
        Rd == Field(instruction, 12, 4)
        baseAddr == Reg(c, Rn)
        offset == LoadStoreOffset(c, instruction)
        U == Bit(instruction, 23)
        P == Bit(instruction, 24)
        address == EffectiveAddress(P, U, baseAddr, offset)
        len == IF B THEN 1 ELSE 4
        stray == Ult(Add32(address, U32(len)), address)
        value(b) == IF B THEN U32(b[1]) ELSE FromLeBytes(b)
        data == IF B THEN <<Reg(c, Rd)[2] % 256>> ELSE LeBytes(Reg(c, Rd))
        Finish(c1) == PostIndex(c1, P, U, Rn, baseAddr, offset)
    IN  IF OutOfRange(c, address, len) THEN {Returns(Finish(c), FALSE)}
        ELSE IF ~stray
        THEN IF L
             THEN {Returns(Finish(Loaded(c, Rd,
                       value(PeekSeq(c.memory.bytes, address, len)))), TRUE)}
             ELSE {Returns(Finish([c EXCEPT !.memory.bytes =
                                      PokeSeq(@, address, data)]), TRUE)}
        ELSE {Outcome(c, FALSE, "trapped", TRUE)} \cup
             IF L
             THEN {Outcome(Finish(Loaded(c, Rd, value(b))), TRUE, "ready", TRUE) :
                     b \in IndeterminateSeq(len)}
             ELSE {Outcome(Finish([c EXCEPT !.memory.bytes = b]), TRUE, "ready", TRUE) :
                     b \in StrayPoke(c.memory.bytes, c.memoryCapacity, address, data)}

\* executeLoadStore, lines 340-397
executeLoadStore(c, instruction) ==
    LET L == Bit(instruction, 20)
        B == Bit(instruction, 22)
        Rn == Field(instruction, 16, 4)
        Rd == Field(instruction, 12, 4)
        baseAddr == Reg(c, Rn)
        offset == LoadStoreOffset(c, instruction)
        U == Bit(instruction, 23)
        P == Bit(instruction, 24)
        address == EffectiveAddress(P, U, baseAddr, offset)
        len == IF B THEN 1 ELSE 4
        \* the access leaves the buffer although the check passed
        stray == Ult(Add32(address, U32(len)), address)
        value(b) == IF B THEN U32(b[1]) ELSE FromLeBytes(b)
        data == IF B THEN <<Reg(c, Rd)[2] % 256>> ELSE LeBytes(Reg(c, Rd))
        Finish(c1) == PostIndex(c1, P, U, Rn, baseAddr, offset)
    IN  IF OutOfRange(c, address, len) THEN {Returns(c, FALSE)}
        ELSE IF ~stray
        THEN IF L
             THEN {Returns(Finish(Loaded(c, Rd,
                       value(PeekSeq(c.memory.bytes, address, len)))), TRUE)}
             ELSE {Returns(Finish([c EXCEPT !.memory.bytes =
                                      PokeSeq(@, address, data)]), TRUE)}
        ELSE {Outcome(c, FALSE, "trapped", TRUE)} \cup
             IF L
             THEN {Outcome(Finish(Loaded(c, Rd, value(b))), TRUE, "ready", TRUE) :
                     b \in IndeterminateSeq(len)}
             ELSE {Outcome(Finish([c EXCEPT !.memory.bytes = b]), TRUE, "ready", TRUE) :
                     b \in StrayPoke(c.memory.bytes, c.memoryCapacity, address, data)}

\* the family of a word, lines 144 and 153-165
Family(instruction) ==
    LET opcode == Field(instruction, 26, 2)
        I == Bit(instruction, 25)
    IN  IF opcode = 0 /\ ~I THEN "dataProcessing"
        ELSE IF opcode = 2 THEN "branch"
        ELSE IF opcode = 1 \/ (opcode = 0 /\ I) THEN "loadStore"
        ELSE "unknown"

\* executeInstruction counting a word only once its condition has passed
executeInstructionCountsLate(c, instruction) ==
    IF c.memory.null THEN {Returns(c, FALSE)}
    ELSE LET c1 == [c EXCEPT !.instructionCount = @ + 1]
             cond == Field(instruction, 28, 4)
             family == Family(instruction)
         IN  IF ~checkCondition(c, cond) THEN {Returns(c, TRUE)}
             ELSE IF family = "dataProcessing" THEN executeDataProcessing(c1, instruction)
             ELSE IF family = "branch" THEN executeBranch(c1, instruction)
             ELSE IF family = "loadStore" THEN executeLoadStore(c1, instruction)
             ELSE {Returns(c1, FALSE)}

\* executeInstruction, lines 138-169
executeInstruction(c, instruction) ==
    IF c.memory.null THEN {Returns(c, FALSE)}
    ELSE LET c1 == [c EXCEPT !.instructionCount = @ + 1]
             cond == Field(instruction, 28, 4)
             family == Family(instruction)
         IN  IF ~checkCondition(c1, cond) THEN {Returns(c1, TRUE)}
             ELSE IF family = "dataProcessing" THEN executeDataProcessing(c1, instruction)
             ELSE IF family = "branch" THEN executeBranch(c1, instruction)
             ELSE IF family = "loadStore" THEN executeLoadStore(c1, instruction)
             ELSE {Returns(c1, FALSE)}

\* the batch loop without its break: a failing word is passed over
RECURSIVE RunFromNoBreak(_, _, _, _)
RunFromNoBreak(c, instructions, i, executed) ==
    IF i > Len(instructions) THEN {Returns(c, executed)}
    ELSE UNION { IF o.status # "ready" THEN {Outcome(o.core, executed, o.status, o.oob)}
                 ELSE {Outcome(n.core, n.ret, n.status, n.oob \/ o.oob) :
                         n \in RunFromNoBreak(o.core, instructions, i + 1,
                                              IF o.ret THEN executed + 1 ELSE executed)}
                 : o \in executeInstruction(c, instructions[i]) }

\* executeInstructions, lines 172-182: ret is the number executed
RECURSIVE RunFrom(_, _, _, _)
RunFrom(c, instructions, i, executed) ==
    IF i > Len(instructions) THEN {Returns(c, executed)}
    ELSE UNION { IF o.status # "ready" THEN {Outcome(o.core, executed, o.status, o.oob)}
                 ELSE IF o.ret
                 THEN {Outcome(n.core, n.ret, n.status, n.oob \/ o.oob) :
                         n \in RunFrom(o.core, instructions, i + 1, executed + 1)}
                 ELSE {Outcome(o.core, executed, "ready", o.oob)}
                 : o \in executeInstruction(c, instructions[i]) }

executeInstructions(c, instructions) == RunFrom(c, instructions, 1, 0)

(***************************************************************************)
(* The host's calls.  Every call is one step; a call that does not return  *)
(* (status "hung" or "trapped") ends the run.                              *)
(***************************************************************************)
Commit(c) ==
    /\ registers' = c.registers
    /\ memory' = c.memory
    /\ memorySize' = c.memorySize
    /\ memoryCapacity' = c.memoryCapacity
    /\ isRunning' = c.isRunning
    /\ pc' = c.pc
    /\ sp' = c.sp
    /\ lr' = c.lr
    /\ instructionCount' = c.instructionCount

Call(op, arg, o) == [op |-> op, arg |-> arg, ret |-> o.ret, oob |-> o.oob]

\* the constructor, lines 55-66
Init ==
    /\ registers = [i \in 1..17 |-> Zero32]
    /\ memory = [null |-> TRUE, bytes |-> NoBytes]
    /\ memorySize = Zero32
    /\ memoryCapacity = Zero32
    /\ isRunning = FALSE
    /\ pc = Zero32
    /\ sp = Zero32
    /\ lr = Zero32
    /\ instructionCount = 0
    /\ status = "ready"
    /\ attempts = 0
    /\ initCapacity = Zero32
    /\ last = [op |-> "create", arg |-> <<>>, ret |-> TRUE, oob |-> FALSE]

CallInit(initialSize) ==
    /\ status = "ready"
    /\ \E o \in init(Core, initialSize) :
        /\ Commit(o.core)
        /\ status' = o.status
        /\ initCapacity' = IF o.ret THEN o.core.memoryCapacity ELSE initCapacity
        /\ last' = Call("init", initialSize, o)
        /\ UNCHANGED attempts

CallWriteMemory(address, data) ==
    /\ status = "ready"
    /\ \E o \in writeMemory(Core, address, data) :
        /\ Commit(o.core)
        /\ status' = o.status
        /\ last' = Call("writeMemory", <<address, data>>, o)
        /\ UNCHANGED <<attempts, initCapacity>>

CallReadMemory(address, length) ==
    /\ status = "ready"
    /\ \E o \in readMemory(Core, address, length) :
        /\ Commit(o.core)
        /\ status' = o.status
        /\ last' = Call("readMemory", <<address, length>>, o)
        /\ UNCHANGED <<attempts, initCapacity>>

CallSetRegister(reg, value) ==
    /\ status = "ready"
    /\ Commit(setRegister(Core, reg, value))
    /\ last' = [op |-> "setRegister", arg |-> <<reg, value>>, ret |-> TRUE, oob |-> FALSE]
    /\ UNCHANGED <<status, attempts, initCapacity>>

CallSetPC(value) ==
    /\ status = "ready"
    /\ Commit(setPC(Core, value))
    /\ last' = [op |-> "setPC", arg |-> value, ret |-> TRUE, oob |-> FALSE]
    /\ UNCHANGED <<status, attempts, initCapacity>>

CallExecuteInstruction(instruction) ==
    /\ status = "ready"
    /\ attempts < MaxCount
    /\ attempts' = attempts + 1
    /\ \E o \in executeInstruction(Core, instruction) :
        /\ Commit(o.core)
        /\ status' = o.status
        /\ last' = Call("executeInstruction", instruction, o)
        /\ UNCHANGED initCapacity

CallExecuteInstructions(instructions) ==
    /\ status = "ready"
    /\ attempts + Len(instructions) <= MaxCount
    /\ \E o \in executeInstructions(Core, instructions) :
        /\ Commit(o.core)
        /\ attempts' = attempts + Len(instructions)
        /\ status' = o.status
        /\ last' = Call("executeInstructions", instructions, o)
        /\ UNCHANGED initCapacity

(***************************************************************************)
(* Instruction words.                                                      *)
(***************************************************************************)
MovR1Imm15   == W(\hE3A0, \h100F)   \* MOV R1, #15 (scenario 1)
MovEqR1Imm15 == W(\h03A0, \h100F)   \* MOVEQ R1, #15 (scenario 3)
AddR4R2R3    == W(\hE082, \h4003)   \* ADD R4, R2, R3 (scenario 2)
BlPlus0      == W(\hEB00, \h0000)   \* BL +0 (scenario 4)
StrR0AtR1    == W(\hE581, \h0000)   \* STR R0, [R1] (scenario 5)
LdrR2AtR1    == W(\hE591, \h2000)   \* LDR R2, [R1] (scenario 5)
LdrbR0AtR1   == W(\hE5D1, \h0000)   \* LDRB R0, [R1] (scenario 6)
LdrR0AtR1    == W(\hE591, \h0000)   \* LDR R0, [R1] (scenario 7)
Undefined    == W(\hEC00, \h0000)   \* bits[27:26] = 11
UndefinedEq  == W(\h0C00, \h0000)   \* bits[27:26] = 11, cond EQ
MovPcR1      == W(\hE1A0, \hF001)   \* op MOV, Rd = 15, Rm = 1
LdrPostPc    == W(\hE69F, \h0004)   \* bit 25 set, post-indexed word load, Rn = 15
CmpR0R0      == W(\hE150, \h0000)   \* CMP R0, R0

\* every sequence of at most n of the words ws
RECURSIVE SeqsUpTo(_, _)
SeqsUpTo(ws, n) ==
    IF n = 0 THEN {<<>>}
    ELSE LET shorter == SeqsUpTo(ws, n - 1)
         IN  shorter \cup {Append(b, w) : b \in shorter, w \in ws}

(***************************************************************************)
(* One step of the host, its arguments drawn from the sets of `in`.        *)
(***************************************************************************)
Step(in) ==
    \/ \E s \in in.sizes : CallInit(s)
    \/ \E w \in in.writes : CallWriteMemory(w[1], w[2])
    \/ \E r \in in.reads : CallReadMemory(r[1], r[2])
    \/ \E r \in in.registers : CallSetRegister(r[1], r[2])
    \/ \E v \in in.pcs : CallSetPC(v)
    \/ \E i \in in.words : CallExecuteInstruction(i)
    \/ \E b \in SeqsUpTo(in.batch, MaxBatch) : CallExecuteInstructions(b)

\* a host that sets up a small engine and runs words of every family
Main ==
    [ sizes     |-> {Zero32, U32(256)},
      writes    |-> { <<U32(255), <<1, 2>>>> },
      reads     |-> { <<U32(255), 2>> },
      registers |-> { <<1, U32(256)>>, <<16, W(\h4000, 0)>>, <<17, U32(1)>> },
      pcs       |-> { U32(256) },
      words     |-> { MovR1Imm15, MovEqR1Imm15, MovPcR1, LdrR0AtR1, LdrPostPc,
                      Undefined, BlPlus0 },
      batch     |-> { MovPcR1, LdrR0AtR1, UndefinedEq } ]

\* a host that stores and loads through R1, in and out of range
LoadStore ==
    [ sizes     |-> {Zero32, U32(256)},
      writes    |-> { <<U32(4096), <<255>>>> },
      reads     |-> { <<U32(4096), 4>> },
      registers |-> { <<0, W(\hDEAD, \hBEEF)>>, <<1, U32(4096)>>, <<1, U32(256)>>,
                      <<1, W(\hFFFF, \hFFFC)>> },
      pcs       |-> { U32(256) },
      words     |-> { StrR0AtR1, LdrR2AtR1, LdrR0AtR1, LdrbR0AtR1 },
      batch     |-> { StrR0AtR1, LdrR2AtR1 } ]

\* the word w with its condition field replaced by cond
WithCond(w, cond) == <<cond * 4096 + (w[1] % 4096), w[2]>>

\* CPSR with the flags N, Z, C, V given as the number NZCV
Flags(nzcv) == <<nzcv * 4096, 0>>

\* a host that sets every NZCV combination and runs words of every condition
Cond ==
    [ sizes     |-> { U32(256) },
      writes    |-> { <<Zero32, <<1>>>> },
      reads     |-> { <<Zero32, 1>> },
      registers |-> { <<16, Flags(f)>> : f \in 0..15 },
      pcs       |-> { U32(256) },
      words     |-> { WithCond(w, cond) : w \in {Undefined, BlPlus0, CmpR0R0},
                                          cond \in 0..15 },
      batch     |-> { UndefinedEq, WithCond(BlPlus0, 1) } ]

\* a host that writes at and beyond the end of small and default buffers
Memory ==
    [ sizes     |-> { Zero32, U32(256), U32(11) },
      writes    |-> { <<U32(256), <<1, 2>>>>, <<U32(260), <<3>>>>,
                      <<W(\hBFFF, \hFFFF), <<1>>>>, <<W(\hFFFF, \hFFFF), <<1, 2>>>> },
      reads     |-> { <<U32(256), 2>>, <<W(\hFFFF, \hFFFF), 2>> },
      registers |-> { <<0, U32(1)>>, <<1, U32(256)>> },
      pcs       |-> { U32(256) },
      words     |-> { StrR0AtR1, LdrR0AtR1 },
      batch     |-> { StrR0AtR1 } ]

\* the data-processing word op{S} R4, R2, R3 (register form, LSL, bits[11:4] = 0)
DataOp(op, S) == W(\hE002 + 32 * op + (IF S THEN 16 ELSE 0), \h4003)

CmpR2R3Rd15 == W(\hE152, \hF003)   \* CMP R2, R3 with Rd = 15

\* a host that sets operands and flags and runs logical, arithmetic and compare words
Data ==
    [ sizes     |-> { U32(256) },
      writes    |-> { <<Zero32, <<0>>>> },
      reads     |-> { <<Zero32, 1>> },
      registers |-> { <<0, U32(1)>>, <<2, U32(10)>>, <<3, U32(32)>>,
                      <<16, W(\h3000, 1)>> },
      pcs       |-> { U32(256) },
      words     |-> { DataOp(op, TRUE) : op \in {0, 2, 7, 8, 9, 10, 11, 13} } \cup
                      {AddR4R2R3, CmpR2R3Rd15, MovPcR1},
      batch     |-> { AddR4R2R3 } ]

BPlus0    == W(\hEA00, \h0000)   \* B +0
BMinus8   == W(\hEAFF, \hFFFE)   \* B -8
BlFarBack == W(\hEB80, \h0000)   \* BL -0x2000000
BFarAhead == W(\hEA7F, \hFFFF)   \* B +0x1FFFFFC

\* a host that moves the PC, to the ends of the address space too, and branches
Branch ==
    [ sizes     |-> { U32(256) },
      writes    |-> { <<Zero32, <<1>>>> },
      reads     |-> { <<Zero32, 1>> },
      registers |-> { <<14, U32(1)>>, <<16, Flags(4)>> },
      pcs       |-> { U32(256), W(\hFFFF, \hFFFC) },
      words     |-> { BPlus0, BlPlus0, BMinus8, BlFarBack, BFarAhead,
                      WithCond(BlPlus0, 1) },
      batch     |-> { BlPlus0, BMinus8 } ]

Next == Step(Main)

Spec == Init /\ [][Next]_vars

NextLoadStore == Step(LoadStore)

SpecLoadStore == Init /\ [][NextLoadStore]_vars

NextCond == Step(Cond)

SpecCond == Init /\ [][NextCond]_vars

NextMemory == Step(Memory)

SpecMemory == Init /\ [][NextMemory]_vars

NextData == Step(Data)

SpecData == Init /\ [][NextData]_vars

NextBranch == Step(Branch)

SpecBranch == Init /\ [][NextBranch]_vars

(***************************************************************************)
(* C1 - PC mirror: on an initialized engine getPC() equals getRegister(15) *)
(* after every call.                                                       *)
(***************************************************************************)
C1_PcMirror == (~memory.null) => getPC(Core) = getRegister(Core, 15)

(***************************************************************************)
(* C2 - failure atomicity: a call of executeInstruction that returns false *)
(* leaves R0-R15, CPSR, the PC/SP/LR fields, every memory byte, the        *)
(* logical size and the capacity as they were; the engine stays usable.    *)
(***************************************************************************)
C2_FailureAtomic ==
    [][ (last'.op = "executeInstruction" /\ status' = "ready" /\ last'.ret = FALSE)
        => /\ registers' = registers
           /\ pc' = pc /\ sp' = sp /\ lr' = lr
           /\ memory' = memory
           /\ memorySize' = memorySize
           /\ memoryCapacity' = memoryCapacity
           /\ instructionCount' \in {instructionCount, instructionCount + 1} ]_vars

\* C2 witness: an out-of-range post-indexed load was refused on an initialized engine
C2_Witness ==
    /\ last.op = "executeInstruction"
    /\ last.ret = FALSE
    /\ last.arg = LdrPostPc
    /\ ~memory.null
    /\ pc = U32(256)

(***************************************************************************)
(* C3 - load/store bounds: a load/store whose condition passes and whose   *)
(* range [addr, addr+len) (len 1 for B = 1, else 4; addr any 32-bit value, *)
(* the sum taken without wrapping) is not inside [0, logical_size) returns *)
(* failure and reads or writes no byte and no register; no load/store      *)
(* touches a byte outside the logical size.                                *)
(***************************************************************************)
NotContained(addr, len, size) ==
    LET end == Add32(addr, U32(len))
    IN  Ult(end, addr) \/ Ult(size, end)

C3_LoadStoreBounds ==
    [][ ( /\ last'.op = "executeInstruction"
          /\ ~memory.null
          /\ Family(last'.arg) = "loadStore"
          /\ checkCondition(Core, Field(last'.arg, 28, 4)) )
        => LET w    == last'.arg
               base == getRegister(Core, Field(w, 16, 4))
               addr == EffectiveAddress(Bit(w, 24), Bit(w, 23), base,
                                        LoadStoreOffset(Core, w))
               len  == IF Bit(w, 22) THEN 1 ELSE 4
           IN  /\ NotContained(addr, len, memorySize)
                    => /\ status' = "ready"
                       /\ last'.ret = FALSE
                       /\ registers' = registers
                       /\ memory' = memory
               /\ ~last'.oob ]_vars

(***************************************************************************)
(* C4 - instruction counter: on an initialized engine every call of        *)
(* executeInstruction adds exactly 1 to the counter, whatever the outcome; *)
(* on an engine without memory the call returns false and the counter      *)
(* stays; a successful init sets it to 0; no other call but                *)
(* executeInstructions changes it.                                         *)
(***************************************************************************)
C4_Counter ==
    [][ /\ (last'.op = "executeInstruction" /\ ~memory.null)
            => instructionCount' = instructionCount + 1
        /\ (last'.op = "executeInstruction" /\ memory.null)
            => (last'.ret = FALSE /\ instructionCount' = instructionCount)
        /\ (last'.op = "init" /\ last'.ret = TRUE) => instructionCount' = 0
        /\ (last'.op \in {"writeMemory", "readMemory", "setRegister", "setPC"})
            => instructionCount' = instructionCount ]_vars

\* C4 witness: two words were counted, the second an undefined word that failed
C4_Witness ==
    /\ last.op = "executeInstruction"
    /\ last.arg = Undefined
    /\ last.ret = FALSE
    /\ instructionCount = 2
    /\ getRegister(Core, 1) = Zero32

(***************************************************************************)
(* C5 - batch execution: executeInstructions returns k, the length of the  *)
(* longest prefix of successful words; the state it leaves is the one      *)
(* reached by executing words 1..k one at a time and, when k is less than  *)
(* the count, the failing word k+1 once; the counter advances by k when    *)
(* all succeed and by k+1 when a failure stops the batch.                  *)
(***************************************************************************)
\* the cores reached by executing every word of ws, each returning success
RECURSIVE AfterAll(_, _)
AfterAll(c, ws) ==
    IF ws = <<>> THEN {c}
    ELSE UNION { AfterAll(o.core, Tail(ws)) :
                   o \in {x \in executeInstruction(c, Head(ws)) :
                            x.ret /\ x.status = "ready"} }

BatchAsClaimed ==
    LET ws == last'.arg
        k  == last'.ret
    IN  /\ k \in 0..Len(ws)
        /\ \E m \in AfterAll(Core, SubSeq(ws, 1, k)) :
              IF k = Len(ws) THEN Core' = m
              ELSE \E o \in executeInstruction(m, ws[k + 1]) :
                      ~o.ret /\ o.status = "ready" /\ o.core = Core'
        /\ instructionCount' =
              instructionCount + (IF k = Len(ws) THEN k ELSE k + 1)

\* C5 as written, for every engine, initialized or not
C5_BatchAnyEngine ==
    [][ (last'.op = "executeInstructions" /\ status' = "ready") => BatchAsClaimed ]_vars

\* C5 for an initialized engine
C5_Batch ==
    [][ (last'.op = "executeInstructions" /\ status' = "ready" /\ ~memory.null)
        => BatchAsClaimed ]_vars

\* C5 witness: a batch of two words stopped at its second word, after the first moved the PC
C5_Witness ==
    /\ last.op = "executeInstructions"
    /\ last.arg = <<MovPcR1, LdrR0AtR1>>
    /\ last.ret = 1
    /\ instructionCount = 2
    /\ pc = U32(256)

(***************************************************************************)
(* C6 - MOV immediate: on a freshly initialized engine an always-          *)
(* conditioned data-processing word with I = 1 and op = MOV returns        *)
(* success and sets R[Rd] to the 8-bit immediate rotated right by          *)
(* 2 * bits[11:8]; 0xE3A0100F gives R1 = 15, counter 1, memory unchanged.  *)
(***************************************************************************)
IsMovImmediate(w) ==
    /\ Field(w, 28, 4) = 14
    /\ Field(w, 26, 2) = 0
    /\ Bit(w, 25)
    /\ Field(w, 21, 4) = 13

RotatedImmediate(w) ==
    LET imm == U32(Field(w, 0, 8))
        n   == 2 * Field(w, 8, 4)
    IN  IF n = 0 THEN imm ELSE Or32(Shr32(imm, n), Shl32(imm, 32 - n))

C6_MovImmediate ==
    [][ ( /\ last.op = "init" /\ last.ret = TRUE
          /\ last'.op = "executeInstruction" /\ status' = "ready"
          /\ IsMovImmediate(last'.arg) )
        => /\ last'.ret = TRUE
           /\ getRegister(Core', Field(last'.arg, 12, 4)) = RotatedImmediate(last'.arg)
           /\ instructionCount' = 1
           /\ memory' = memory ]_vars

(***************************************************************************)
(* C7 - STR/LDR round trip: with default memory, for every value in R0 and *)
(* every in-range base in R1, STR R0,[R1] (0xE5810000) followed by         *)
(* LDR R2,[R1] (0xE5912000) both succeed, R2 equals R0 and the four bytes  *)
(* at the base hold the value little-endian.                               *)
(***************************************************************************)
C7_RoundTrip ==
    LET base == getRegister(Core, 1)
    IN  ( /\ last.op = "executeInstructions"
          /\ last.arg = <<StrR0AtR1, LdrR2AtR1>>
          /\ status = "ready"
          /\ ~memory.null
          /\ memoryCapacity = DefaultCapacity
          /\ ~NotContained(base, 4, memorySize) )
        => /\ last.ret = 2
           /\ getRegister(Core, 2) = getRegister(Core, 0)
           /\ PeekSeq(memory.bytes, base, 4) = LeBytes(getRegister(Core, 0))

(***************************************************************************)
(* C8 - init resets everything: after a successful init(size) R0-R12, R14  *)
(* and CPSR read 0, R13 = capacity - 4, R15 = 0 = getPC(), the counter is  *)
(* 0, every memory byte is 0 and the capacity is size (64 MiB for 0).      *)
(***************************************************************************)
C8_InitResets ==
    (last.op = "init" /\ last.ret = TRUE)
    => /\ \A r \in (0..12) \cup {14, 16} : getRegister(Core, r) = Zero32
       /\ getRegister(Core, 13) = Sub32(memoryCapacity, U32(4))
       /\ getRegister(Core, 15) = Zero32
       /\ getPC(Core) = Zero32
       /\ getInstructionCount(Core) = 0
       /\ memory.bytes = NoBytes
       /\ memoryCapacity = (IF last.arg = Zero32 THEN DefaultCapacity ELSE last.arg)
(***************************************************************************)
(* C9 - condition evaluation and skip: the body of a word executes iff the *)
(* predicate of the condition table holds for its cond field and the NZCV  *)
(* flags of CPSR; when it does not hold executeInstruction returns success *)
(* for every word (family bits 11 included) and R0-R15, CPSR, PC and       *)
(* memory are unchanged while the counter advances by 1.                   *)
(***************************************************************************)
ConditionTable(cond, N, Z, C, V) ==
    CASE cond = 0  -> Z
      [] cond = 1  -> ~Z
      [] cond = 2  -> C
      [] cond = 3  -> ~C
      [] cond = 4  -> N
      [] cond = 5  -> ~N
      [] cond = 6  -> V
      [] cond = 7  -> ~V
      [] cond = 8  -> C /\ ~Z
      [] cond = 9  -> ~C \/ Z
      [] cond = 10 -> (N <=> V)
      [] cond = 11 -> ~(N <=> V)
      [] cond = 12 -> ~Z /\ (N <=> V)
      [] cond = 13 -> Z \/ ~(N <=> V)
      [] cond = 14 -> TRUE
      [] cond = 15 -> TRUE

\* what the body of the word w does to the core c
Body(c, w) ==
    CASE Family(w) = "dataProcessing" -> executeDataProcessing(c, w)
      [] Family(w) = "branch"         -> executeBranch(c, w)
      [] Family(w) = "loadStore"      -> executeLoadStore(c, w)
      [] OTHER                        -> {Returns(c, FALSE)}

C9_Condition ==
    [][ (last'.op = "executeInstruction" /\ ~memory.null /\ status' = "ready")
        => LET w     == last'.arg
               cpsr  == getRegister(Core, 16)
               holds == ConditionTable(Field(w, 28, 4), Bit(cpsr, 31), Bit(cpsr, 30),
                                       Bit(cpsr, 29), Bit(cpsr, 28))
               counted == [Core EXCEPT !.instructionCount = @ + 1]
           IN  /\ holds => \E o \in Body(counted, w) :
                              o.status = "ready" /\ o.core = Core' /\ o.ret = last'.ret
               /\ (holds /\ Field(w, 26, 2) = 3) => last'.ret = FALSE
               /\ ~holds => /\ last'.ret = TRUE
                            /\ registers' = registers
                            /\ pc' = pc /\ sp' = sp /\ lr' = lr
                            /\ memory' = memory
                            /\ memorySize' = memorySize
                            /\ instructionCount' = instructionCount + 1 ]_vars

\* C9 witness: with N set and V clear, an undefined word under GT was skipped with success
C9_Witness ==
    /\ last.op = "executeInstruction"
    /\ last.arg = WithCond(Undefined, 12)
    /\ last.ret = TRUE
    /\ getRegister(Core, 16) = Flags(8)
    /\ instructionCount = 1
(***************************************************************************)
(* C10 - memory image: after a successful init logical_size <= capacity    *)
(* and the capacity is the capacity chosen by the most recent init times a *)
(* power of two; between two inits neither ever decreases under            *)
(* writeMemory, readMemory and instruction execution, and instructions     *)
(* change neither.                                                         *)
(***************************************************************************)
\* cap = base * 2^k for some k >= 0, as numbers
RECURSIVE IsPowerOfTwoMultiple(_, _)
IsPowerOfTwoMultiple(cap, base) ==
    IF cap = base THEN TRUE
    ELSE IF base = Zero32 \/ base[1] >= Half \div 2 THEN FALSE
    ELSE IsPowerOfTwoMultiple(cap, Add32(base, base))

C10_MemoryImage ==
    [][ (status' = "ready" /\ ~memory'.null)
        => /\ Ule(memorySize', memoryCapacity')
           /\ IsPowerOfTwoMultiple(memoryCapacity', initCapacity')
           /\ (last'.op # "init" /\ ~memory.null)
                => /\ Ule(memorySize, memorySize')
                   /\ Ule(memoryCapacity, memoryCapacity')
           /\ (last'.op \in {"executeInstruction", "executeInstructions", "readMemory"})
                => /\ memorySize' = memorySize
                   /\ memoryCapacity' = memoryCapacity ]_vars

(***************************************************************************)
(* C11 - writeMemory/readMemory round trip: on an initialized engine, when *)
(* writeMemory(a, D) returns success, getMemorySize() >= a + len(D) (as    *)
(* numbers), a readMemory(a, len(D)) made next returns success and yields  *)
(* exactly D, and every byte outside [a, a + len(D)) that was readable     *)
(* before the write is unchanged.                                          *)
(***************************************************************************)
\* x lies in [a, a + n), the sum taken as a number
InRange(x, a, n) == ~Ult(x, a) /\ Ult(Sub32(x, a), U32(n))

C11_WriteReadRoundTrip ==
    [][ ( /\ last'.op = "writeMemory"
          /\ ~memory.null
          /\ status' = "ready"
          /\ last'.ret = TRUE )
        => LET a   == last'.arg[1]
               D   == last'.arg[2]
               end == Add32(a, U32(Len(D)))
           IN  /\ ~Ult(end, a)
               /\ Ule(end, getMemorySize(Core'))
               /\ \A o \in readMemory(Core', a, Len(D)) :
                     o.status = "ready" /\ o.ret = <<TRUE, D>>
               /\ \A x \in DOMAIN memory.bytes \cup DOMAIN memory'.bytes :
                     (Ult(x, memorySize) /\ ~InRange(x, a, Len(D)))
                        => Peek(memory'.bytes, x) = Peek(memory.bytes, x) ]_vars

(***************************************************************************)
(* C12 - zero-fill growth: when a writeMemory(a, D) raises the logical     *)
(* size from s to a + len(D), every byte of the gap [s, a) reads 0         *)
(* afterwards; a byte below the logical size that no writeMemory and no    *)
(* store instruction has targeted since the last init reads 0.  Stated as  *)
(* the step that keeps it so: after a successful init every byte is 0, and *)
(* after any other call a non-zero byte below the logical size is a target *)
(* of that call or was non-zero and below the logical size before it.      *)
(***************************************************************************)
\* the bytes memcpy(memory + a, D, len(D)) addresses
WriteTargets(a, D) == {Add32(a, U32(i - 1)) : i \in 1..Len(D)}

\* the bytes the word w stores to when executed on the core c
StoreTargets(c, w) ==
    LET address == EffectiveAddress(Bit(w, 24), Bit(w, 23), Reg(c, Field(w, 16, 4)),
                                    LoadStoreOffset(c, w))
        len     == IF Bit(w, 22) THEN 1 ELSE 4
    IN  IF /\ Family(w) = "loadStore"
           /\ ~Bit(w, 20)
           /\ checkCondition(c, Field(w, 28, 4))
           /\ ~OutOfRange(c, address, len)
        THEN {Add32(address, U32(i)) : i \in 0..(len - 1)}
        ELSE {}

\* the bytes the words ws store to when executed in order from the core c
RECURSIVE BatchTargets(_, _)
BatchTargets(c, ws) ==
    IF ws = <<>> THEN {}
    ELSE StoreTargets(c, Head(ws)) \cup
         UNION { BatchTargets(o.core, Tail(ws)) :
                   o \in {x \in executeInstruction(c, Head(ws)) :
                            x.ret /\ x.status = "ready"} }

\* the bytes targeted by the call that made this step
StepTargets ==
    CASE last'.op = "writeMemory"         -> WriteTargets(last'.arg[1], last'.arg[2])
      [] last'.op = "executeInstruction"  -> StoreTargets(Core, last'.arg)
      [] last'.op = "executeInstructions" -> BatchTargets(Core, last'.arg)
      [] OTHER                            -> {}

C13_ReadBounds ==
    [][ (last'.op = "readMemory" /\ ~memory.null)
        => LET address == last'.arg[1]
               length  == last'.arg[2]
           IN  /\ status' = "ready"
               /\ last'.ret[1] = ~NotContained(address, length, memorySize)
               /\ ~last'.ret[1] => last'.ret[2] = <<>>
               /\ ~last'.oob
               /\ Core' = Core ]_vars

(***************************************************************************)
(* C14 - V flag and low CPSR bits preserved: for every data-processing     *)
(* instruction and every prior CPSR, bit 28 (V) and bits[27:0] of CPSR     *)
(* after the instruction equal their values before it; the instruction     *)
(* can change only N, Z and C.                                             *)
(***************************************************************************)
C14_VPreserved ==
    [][ ( /\ last'.op = "executeInstruction"
          /\ ~memory.null
          /\ status' = "ready"
          /\ Family(last'.arg) = "dataProcessing" )
        => /\ Bit(getRegister(Core', 16), 28) = Bit(getRegister(Core, 16), 28)
           /\ Field(getRegister(Core', 16), 0, 28) = Field(getRegister(Core, 16), 0, 28)
      ]_vars

(***************************************************************************)
(* C15 - carry flag per operation: when a data-processing instruction      *)
(* updates flags (S = 1 or op in 0x8..0xB) the C flag afterwards is A >= B *)
(* for SUB/CMP, B >= A for RSB, result < A for ADD/ADC/SBC/CMN,            *)
(* result < B for RSC, and for AND, EOR, TST, TEQ, ORR, MOV, BIC, MVN it   *)
(* is its value before the instruction.                                    *)
(***************************************************************************)
CarryTable(op, A, B, result, before) ==
    CASE op \in {2, 10}       -> Ule(B, A)
      [] op = 3               -> Ule(A, B)
      [] op \in {4, 5, 6, 11} -> Ult(result, A)
      [] op = 7               -> Ult(result, B)
      [] OTHER                -> before

C15_CarryTable ==
    [][ ( /\ last'.op = "executeInstruction"
          /\ ~memory.null
          /\ status' = "ready"
          /\ Family(last'.arg) = "dataProcessing"
          /\ checkCondition(Core, Field(last'.arg, 28, 4))
          /\ (Bit(last'.arg, 20) \/ Field(last'.arg, 21, 4) \in 8..11) )
        => LET w      == last'.arg
               op     == Field(w, 21, 4)
               A      == getRegister(Core, Field(w, 16, 4))
               before == Bit(getRegister(Core, 16), 29)
               cin    == IF before THEN 1 ELSE 0
           IN  \E B \in Operand2(Core, w) :
                  Bit(getRegister(Core', 16), 29)
                     = CarryTable(op, A, B, Alu(op, A, B, cin).result, before) ]_vars

(***************************************************************************)
(* C16 - branch arithmetic: for a branch word whose condition passes and   *)
(* every prior PC p, executeInstruction returns success, the new PC (and   *)
(* R15) is p + 8 + sign_extend_26(imm24 << 2) mod 2^32, LR (and R14)       *)
(* becomes p + 4 mod 2^32 iff L = 1 and is otherwise unchanged, and        *)
(* R0-R13, CPSR and memory are unchanged.  With PC = 0x100 the word        *)
(* 0xEB000000 gives LR = 0x104 and PC = 0x108.                             *)
(***************************************************************************)
\* imm24 << 2 as a 26-bit two's complement number, extended to 32 bits
SignExtend26(imm24) ==
    IF imm24 >= 8388608
    THEN Sub32(U32((imm24 - 8388608) * 4), U32(33554432))
    ELSE U32(imm24 * 4)

C16_Branch ==
    [][ ( /\ last'.op = "executeInstruction"
          /\ ~memory.null
          /\ Field(last'.arg, 26, 2) = 2
          /\ checkCondition(Core, Field(last'.arg, 28, 4)) )
        => LET w      == last'.arg
               p      == getPC(Core)
               target == Add32(Add32(p, U32(8)), SignExtend26(Field(w, 0, 24)))
               link   == Add32(p, U32(4))
           IN  /\ status' = "ready"
               /\ last'.ret = TRUE
               /\ getPC(Core') = target
               /\ getRegister(Core', 15) = target
               /\ IF Bit(w, 24)
                  THEN lr' = link /\ getRegister(Core', 14) = link
                  ELSE lr' = lr /\ getRegister(Core', 14) = getRegister(Core, 14)
               /\ \A r \in (0..13) \cup {16} : getRegister(Core', r) = getRegister(Core, r)
               /\ sp' = sp
               /\ memory' = memory
               /\ memorySize' = memorySize
               /\ (w = BlPlus0 /\ p = U32(256))
                    => (lr' = U32(260) /\ getPC(Core') = U32(264)) ]_vars

\* C16 witness: BL -0x2000000 from PC = 0x100 linked 0x104 and went back past address 0
C16_Witness ==
    /\ last.op = "executeInstruction"
    /\ last.arg = BlFarBack
    /\ last.ret = TRUE
    /\ pc = W(\hFE00, \h0108)
    /\ getRegister(Core, 15) = W(\hFE00, \h0108)
    /\ lr = U32(260)
    /\ getRegister(Core, 14) = U32(260)

(***************************************************************************)
(* C17 - compare/test ops have no writeback: a data-processing instruction *)
(* with op in 0x8..0xB leaves R0-R15, the PC mirror and all memory         *)
(* unchanged for every Rd (15 included) and only updates CPSR flags; every *)
(* other data-processing instruction changes at most R[Rd] (or the PC when *)
(* Rd = 15) and CPSR, never another register and never memory.             *)
(***************************************************************************)
C17_NoWriteback ==
    [][ ( /\ last'.op = "executeInstruction"
          /\ ~memory.null
          /\ status' = "ready"
          /\ Family(last'.arg) = "dataProcessing" )
        => LET op == Field(last'.arg, 21, 4)
               Rd == Field(last'.arg, 12, 4)
           IN  /\ memory' = memory
               /\ memorySize' = memorySize
               /\ sp' = sp /\ lr' = lr
               /\ op \in 8..11
                    => /\ \A r \in 0..15 : getRegister(Core', r) = getRegister(Core, r)
                       /\ getPC(Core') = getPC(Core)
                       /\ Field(getRegister(Core', 16), 0, 28)
                             = Field(getRegister(Core, 16), 0, 28)
               /\ op \notin 8..11
                    => /\ \A r \in 0..15 :
                             r # Rd => getRegister(Core', r) = getRegister(Core, r)
                       /\ Rd # 15 => getPC(Core') = getPC(Core) ]_vars

\* C17 witness: CMP R2, R3 with Rd = 15 set the flags of 10 - 32 and left the PC at 0x100
C17_Witness ==
    /\ last.op = "executeInstruction"
    /\ last.arg = CmpR2R3Rd15
    /\ getRegister(Core, 2) = U32(10)
    /\ getRegister(Core, 3) = U32(32)
    /\ getRegister(Core, 0) = Zero32
    /\ Field(getRegister(Core, 16), 28, 4) = 8
    /\ pc = U32(256)
    /\ getRegister(Core, 15) = U32(256)

(***************************************************************************)
(* C18 - barrel-shifter amount selection: for a register-form              *)
(* data-processing word the shift amount is bits[11:7] when bit[4] = 0,    *)
(* and then no register other than Rn and Rm influences the result; it is  *)
(* R[Rs] & 0xFF with Rs = bits[11:8] when bit[4] = 1.  ADD R4, R2, R3      *)
(* (0xE0824003) with R2 = 10 and R3 = 32 yields R4 = 42 whatever R0 and    *)
(* the other registers hold.                                               *)
(***************************************************************************)
\* the second operand with the amount chosen as the claim says
ShifterOperand(c, w) ==
    LET amount == IF ~Bit(w, 4) THEN Field(w, 7, 5)
                  ELSE Reg(c, Field(w, 8, 4))[2] % 256
    IN  Shifted(Field(w, 5, 2), Reg(c, Field(w, 0, 4)), amount)

\* the core a data-processing word leaves when its second operand is op2
DataProcessingWith(c, w, op2) ==
    LET op == Field(w, 21, 4)
        Rd == Field(w, 12, 4)
        S  == Bit(w, 20) \/ op \in 8..11
        a  == Alu(op, Reg(c, Field(w, 16, 4)), op2,
                  IF Bit(Reg(c, 16), 29) THEN 1 ELSE 0)
    IN  UpdateFlags(WriteBack(c, op, Rd, a.result), op, S, Rd, a.result, a.carry)

C18_ShiftAmount ==
    [][ ( /\ last'.op = "executeInstruction"
          /\ ~memory.null
          /\ status' = "ready"
          /\ Family(last'.arg) = "dataProcessing"
          /\ checkCondition(Core, Field(last'.arg, 28, 4)) )
        => LET w == last'.arg
               counted == [Core EXCEPT !.instructionCount = @ + 1]
           IN  /\ \E op2 \in ShifterOperand(Core, w) :
                     Core' = DataProcessingWith(counted, w, op2)
               /\ ( /\ w = AddR4R2R3
                    /\ getRegister(Core, 2) = U32(10)
                    /\ getRegister(Core, 3) = U32(32) )
                    => getRegister(Core', 4) = U32(42) ]_vars

(***************************************************************************)
(* C19 - SP and LR mirror invariant: after any sequence of operations on   *)
(* an initialized engine (init and re-init, setRegister on 13 or 14,       *)
(* instructions that write R13 or R14, branch-with-link) the SP shadow     *)
(* field equals R13 and the LR shadow field equals R14.                    *)
(***************************************************************************)
C19_SpLrMirror ==
    (~memory.null) => (sp = getRegister(Core, 13) /\ lr = getRegister(Core, 14))

(***************************************************************************)
(* C20 - writeMemory always terminates: on an initialized engine, for      *)
(* every address and length, writeMemory returns with success or failure;  *)
(* when address + length cannot be reached by doubling the capacity in     *)
(* 32-bit arithmetic the doubling loop still exits and the call reports    *)
(* failure with memory, logical size and capacity unchanged.               *)
(***************************************************************************)
\* doubling the capacity c in 32 bits never reaches size
Unreachable(c, size) ==
    Ult(c, size) /\ ~GrowCapacity(Add32(c, c), size).exits

C20_WriteTerminates ==
    [][ (last'.op = "writeMemory" /\ ~memory.null)
        => LET end == Add32(last'.arg[1], U32(Len(last'.arg[2])))
           IN  /\ status' # "hung"
               /\ Unreachable(memoryCapacity, end)
                    => /\ status' = "ready"
                       /\ last'.ret = FALSE
                       /\ memory' = memory
                       /\ memorySize' = memorySize
                       /\ memoryCapacity' = memoryCapacity ]_vars
====
